---- MODULE Spec2Model ----
(***************************************************************************)
(* The Word (.docx) to exam parser: parseWordToExam, parseDocumentXML,     *)
(* parseQuestionsFromParagraphs, extractOptionsWithUnderline,              *)
(* buildFormattedText, groupQuestionsIntoSections and validateExamData.    *)
(*                                                                         *)
(* A JavaScript string is a sequence of one-character strings; offsets     *)
(* into it are 0-based as in the source (Slice, CharAt).  A value that may *)
(* be null is Null (the empty tuple) or Some(v) (the one-element tuple).   *)
(* The module language accepts Latin-1 only in strings, so the letter      *)
(* D-with-stroke of "Dap an" is the character named DStroke / dStroke.     *)
(***************************************************************************)
EXTENDS Integers, Sequences, FiniteSets, TLC

----------------------------------------------------------------------------
(* Bounds of the model *)

\* number of w:p elements of one document
MaxParas == 3
\* number of Questions of an ExamData handed directly to the validator
MaxValidated == 2
\* the longest list of Questions groupQuestionsIntoSections is given
MaxGrouped == 3
\* the longest exam.questions the useMemo of ExamRoom is given
MaxDisplayed == 3
\* room.timeLimit * 60, the seconds on the countdown at mount
MaxTime == 2
\* the calls of submitExam after which the student confirms no more
MaxCalls == 2

----------------------------------------------------------------------------
(* Strings *)

Null == <<>>
Some(v) == <<v>>
Val(m) == m[1]

DStroke == "D/"
dStroke == "d/"

\* the white space (\s, trim) that occurs in the modelled documents
WS == {" ", "\t", "\n"}

LowerCase == <<"a","b","c","d","e","f","g","h","i","j","k","l","m","n","o","p","q",
               "r","s","t","u","v","w","x","y","z","â","á",dStroke>>
UpperCase == <<"A","B","C","D","E","F","G","H","I","J","K","L","M","N","O","P","Q",
               "R","S","T","U","V","W","X","Y","Z","Â","Á",DStroke>>

AsciiUpper == {"A","B","C","D","E","F","G","H","I","J","K","L","M","N","O","P","Q",
               "R","S","T","U","V","W","X","Y","Z"}

ToUpper(c) ==
    IF \E k \in 1..Len(LowerCase) : LowerCase[k] = c
    THEN UpperCase[CHOOSE k \in 1..Len(LowerCase) : LowerCase[k] = c]
    ELSE c

ToLower(c) ==
    IF \E k \in 1..Len(UpperCase) : UpperCase[k] = c
    THEN LowerCase[CHOOSE k \in 1..Len(UpperCase) : UpperCase[k] = c]
    ELSE c

ToLowerCase(s) == [k \in 1..Len(s) |-> ToLower(s[k])]

\* [A-Z] under the i flag
IsLetterAZ(c) == ToUpper(c) \in AsciiUpper

DigitChars == <<"0","1","2","3","4","5","6","7","8","9">>
IsDigit(c) == \E k \in 1..10 : DigitChars[k] = c
DigitVal(c) == (CHOOSE k \in 1..10 : DigitChars[k] = c) - 1

SetMin(S) == CHOOSE x \in S : \A y \in S : x <= y
SetMax(S) == CHOOSE x \in S : \A y \in S : y <= x

\* s.charAt(i), 0-based
CharAt(s, i) == s[i + 1]

\* s.slice(a, b) for 0 <= a, b <= s.length
Slice(s, a, b) == IF a < b THEN SubSeq(s, a + 1, b) ELSE <<>>

\* s.trim()
Trim(s) ==
    LET keep == {k \in 1..Len(s) : s[k] \notin WS}
    IN  IF keep = {} THEN <<>> ELSE SubSeq(s, SetMin(keep), SetMax(keep))

\* the literal lit stands at offset i of s
MatchAt(s, i, lit) ==
    /\ i + Len(lit) <= Len(s)
    /\ \A k \in 1..Len(lit) : s[i + k] = lit[k]

\* the same under the i flag
MatchAtCI(s, i, lit) ==
    /\ i + Len(lit) <= Len(s)
    /\ \A k \in 1..Len(lit) : ToUpper(s[i + k]) = ToUpper(lit[k])

\* offset of the first occurrence of lit at or after from (i flag), or -1
IndexOfCI(s, lit, from) ==
    LET hits == {i \in from..Len(s) : MatchAtCI(s, i, lit)}
    IN  IF hits = {} THEN -1 ELSE SetMin(hits)

\* s.includes(lit)
Includes(s, lit) == \E i \in 0..Len(s) : MatchAt(s, i, lit)

\* offset where a greedy \s* starting at offset i ends
SkipWS(s, i) == SetMin({j \in i..Len(s) : j = Len(s) \/ s[j + 1] \notin WS})

\* offset where a greedy \d* starting at offset i ends
SkipDigits(s, i) == SetMin({j \in i..Len(s) : j = Len(s) \/ ~IsDigit(s[j + 1])})

\* offset where a greedy [\.\s:]* starting at offset i ends
SkipSeparators(s, i) ==
    SetMin({j \in i..Len(s) : j = Len(s) \/ s[j + 1] \notin (WS \cup {".", ":"})})

RECURSIVE ParseInt(_)
\* parseInt(digits, 10) of a non-empty digit string
ParseInt(digits) ==
    IF digits = <<>> THEN 0
    ELSE 10 * ParseInt(SubSeq(digits, 1, Len(digits) - 1)) + DigitVal(digits[Len(digits)])

RECURSIVE CollapseWS(_)
\* s.replace(/\t+/g, ' ').replace(/\s+/g, ' '): every run of white space
\* becomes one space
CollapseWS(s) ==
    IF s = <<>> THEN <<>>
    ELSE IF s[1] \in WS
         THEN <<" ">> \o CollapseWS(Slice(s, SkipWS(s, 0), Len(s)))
         ELSE <<s[1]>> \o CollapseWS(Tail(s))

RECURSIVE Concat(_)
\* texts.join('')
Concat(texts) == IF texts = <<>> THEN <<>> ELSE Head(texts) \o Concat(Tail(texts))

ToUpperCase(s) == [k \in 1..Len(s) |-> ToUpper(s[k])]

----------------------------------------------------------------------------
(* Run Extractor: the loop over w:p and w:r of parseDocumentXML.            *)
(* A w:r element is [text, rPr]: text is the concatenation of its w:t      *)
(* children, rPr is Null (no w:rPr) or Some of a record whose fields       *)
(* highlight, shd, u, b are Null (no such child element) or Some(attr),    *)
(* attr being Null (attribute absent) or Some(value) for w:val / w:fill.   *)

sNone == <<"n","o","n","e">>
sAuto == <<"a","u","t","o">>
sWhite == <<"F","F","F","F","F","F">>
sZero == <<"0">>

\* a JavaScript string or null used as a condition
Truthy(attr) == attr # Null /\ Val(attr) # <<>>

HasHighlight(rPr) ==
    /\ rPr # Null
    /\ \/ /\ Val(rPr).highlight # Null
          /\ Val(Val(rPr).highlight) # Some(sNone)
       \/ /\ Val(rPr).shd # Null
          /\ LET fill == Val(Val(rPr).shd)
             IN  /\ Truthy(fill)
                 /\ Val(fill) # sAuto
                 /\ ToUpperCase(Val(fill)) # sWhite

HasUnderline(rPr) ==
    /\ rPr # Null
    /\ Val(rPr).u # Null
    /\ LET uVal == Val(Val(rPr).u)
       IN  ~Truthy(uVal) \/ ToLowerCase(Val(uVal)) # sNone

HasBold(rPr) ==
    /\ rPr # Null
    /\ Val(rPr).b # Null
    /\ LET bVal == Val(Val(rPr).b)
       IN  ~Truthy(bVal) \/ Val(bVal) # sZero

RECURSIVE ExtractRuns(_, _)
\* the loop over the runs of one paragraph: runs with no text are dropped,
\* the others get the offsets [currentPos, currentPos + length)
ExtractRuns(runs, currentPos) ==
    IF runs = <<>> THEN <<>>
    ELSE LET run == Head(runs)
             runText == run.text
         IN  IF runText # <<>>
             THEN << [text         |-> runText,
                      hasHighlight |-> HasHighlight(run.rPr),
                      hasUnderline |-> HasUnderline(run.rPr),
                      hasBold      |-> HasBold(run.rPr),
                      start        |-> currentPos,
                      end          |-> currentPos + Len(runText)] >>
                  \o ExtractRuns(Tail(runs), currentPos + Len(runText))
             ELSE ExtractRuns(Tail(runs), currentPos)

RECURSIVE ExtractRunsKeepingEmpty(_, _)
\* the loop over the runs without the test of runText
ExtractRunsKeepingEmpty(runs, currentPos) ==
    IF runs = <<>> THEN <<>>
    ELSE LET run == Head(runs)
             runText == run.text
         IN  << [text         |-> runText,
                 hasHighlight |-> HasHighlight(run.rPr),
                 hasUnderline |-> HasUnderline(run.rPr),
                 hasBold      |-> HasBold(run.rPr),
                 start        |-> currentPos,
                 end          |-> currentPos + Len(runText)] >>
             \o ExtractRunsKeepingEmpty(Tail(runs), currentPos + Len(runText))

\* mutant of ParagraphDataOf: runs without text are pushed too
ParagraphDataOfKeepingEmpty(p) ==
    LET paragraphRuns == ExtractRunsKeepingEmpty(p, 0)
    IN  [text |-> Concat([k \in 1..Len(paragraphRuns) |-> paragraphRuns[k].text]),
         runs |-> paragraphRuns]

\* the ParagraphData of one w:p element
ParagraphDataOf(p) ==
    LET paragraphRuns == ExtractRuns(p, 0)
    IN  [text |-> Concat([k \in 1..Len(paragraphRuns) |-> paragraphRuns[k].text]),
         runs |-> paragraphRuns]

\* paragraphText.trim() is non-empty: the paragraph is kept
KeptParagraph(pData) == Trim(pData.text) # <<>>

----------------------------------------------------------------------------
(* Line Classifier: the regular expressions of parseQuestionsFromParagraphs *)

sSECTION == <<"S","E","C","T","I","O","N">>
sPOINT == <<"P","O","I","N","T">>
sCau == <<"C","â","u">>
sDapAn == <<DStroke,"á","p"," ","á","n",":">>
sGift == <<"A"," ","s","u","r","p","r","i","s","i","n","g"," ","g","i","f","t">>
sDragon == <<"S","t","e","w","a","r","t"," ","t","h","e"," ","D","r","a","g","o","n">>
PartKeywords == { <<"c","i","r","c","l","e">>, <<"r","e","a","d">>,
                  <<"c","o","m","p","l","e","t","e">>,
                  <<"r","e","w","r","i","t","e">>, <<"p","u","t">> }

\* /SECTION\s+([A-Z])\.\s*([^:]+):\s*(.*?POINTS?)/i tried at offset i:
\* Null, or Some of the SectionInfo built from the three groups
SectionAt(line, i) ==
    IF ~MatchAtCI(line, i, sSECTION) THEN Null
    ELSE LET j == SkipWS(line, i + Len(sSECTION))
         IN  IF ~(/\ j > i + Len(sSECTION)
                  /\ j + 1 < Len(line)
                  /\ IsLetterAZ(CharAt(line, j))
                  /\ CharAt(line, j + 1) = ".")
             THEN Null
             ELSE LET k0 == j + 2
                      colons == {c \in k0..(Len(line) - 1) : CharAt(line, c) = ":"}
                  IN  IF colons = {} \/ SetMin(colons) = k0 THEN Null
                      ELSE LET c == SetMin(colons)
                               p0 == SkipWS(line, c + 1)
                               q == IndexOfCI(line, sPOINT, p0)
                           IN  IF q < 0 THEN Null
                               ELSE LET e == q + Len(sPOINT)
                                        e2 == IF e < Len(line) /\ ToUpper(CharAt(line, e)) = "S"
                                              THEN e + 1 ELSE e
                                    IN  Some([letter |-> CharAt(line, j),
                                              name   |-> Trim(Slice(line, k0, c)),
                                              points |-> Slice(line, p0, e2)])

\* line.match(/SECTION.../i): the leftmost offset at which the pattern matches
SectionMatch(line) ==
    LET hits == {i \in 0..Len(line) : SectionAt(line, i) # Null}
    IN  IF hits = {} THEN Null ELSE SectionAt(line, SetMin(hits))

\* line.match(/^([IVX]+)\.\s*(.+)/i)
PartMatch(line) ==
    LET n == SetMin({j \in 0..Len(line) :
                        j = Len(line) \/ ToUpper(CharAt(line, j)) \notin {"I", "V", "X"}})
    IN  /\ n >= 1
        /\ n + 1 < Len(line)
        /\ CharAt(line, n) = "."

\* the part-header condition: the pattern and one of the keywords
IsPartHeader(line) ==
    /\ PartMatch(line)
    /\ \E kw \in PartKeywords : Includes(ToLowerCase(line), kw)

\* line.match(/^(A surprising gift|Stewart the Dragon)/i)
PassageStartMatch(line) == MatchAtCI(line, 0, sGift) \/ MatchAtCI(line, 0, sDragon)

\* line.match(/^Câu\s*\d+/i)
CauMatch(line) ==
    /\ MatchAtCI(line, 0, sCau)
    /\ LET d0 == SkipWS(line, Len(sCau))
       IN  d0 < Len(line) /\ IsDigit(CharAt(line, d0))

\* line.match(/^Câu\s*(\d+)[\.\s:]+(.*)$/i): Null, or Some of
\* [qNum, qContent] = [parseInt(group 1), group 2 trimmed]
QMatch(line) ==
    IF ~CauMatch(line) THEN Null
    ELSE LET d0 == SkipWS(line, Len(sCau))
             d1 == SkipDigits(line, d0)
             r0 == SkipSeparators(line, d1)
         IN  IF r0 = d1 THEN Null
             ELSE Some([qNum     |-> ParseInt(Slice(line, d0, d1)),
                        qContent |-> Trim(Slice(line, r0, Len(line)))])

\* line.match(/^\s*[A-D][\.\)]/i)
OptionLineMatch(line) ==
    LET w == SkipWS(line, 0)
    IN  /\ w + 1 < Len(line)
        /\ ToUpper(CharAt(line, w)) \in {"A", "B", "C", "D"}
        /\ CharAt(line, w + 1) \in {".", ")"}

\* line.match(/Đáp án:\s*(.+)/i): Null, or Some of group 1 trimmed
AnsMatch(line) ==
    LET i == IndexOfCI(line, sDapAn, 0)
    IN  IF i < 0 \/ i + Len(sDapAn) >= Len(line) THEN Null
        ELSE Some(Trim(Slice(line, i + Len(sDapAn), Len(line))))

----------------------------------------------------------------------------
(* Formatted text.  The markup emitted around a sub-span and the entities  *)
(* of escapeHtml are single elements of the result (they hold no white     *)
(* space that the final replace could merge with text).                    *)

tagSpanOpen == "<span class=\"underlined-part\">"
tagSpanClose == "</span>"
tagStrongOpen == "<strong>"
tagStrongClose == "</strong>"

\* div.textContent = c; div.innerHTML
EscapeChar(c) ==
    CASE c = "&" -> "&amp;"
      [] c = "<" -> "&lt;"
      [] c = ">" -> "&gt;"
      [] OTHER   -> c

escapeHtml(text) == [k \in 1..Len(text) |-> EscapeChar(text[k])]

\* the markup for one contributing run
FormatPortion(run, textPortion) ==
    LET formattedText == escapeHtml(textPortion)
    IN  IF run.hasUnderline /\ run.hasBold
        THEN <<tagSpanOpen, tagStrongOpen>> \o formattedText \o <<tagStrongClose, tagSpanClose>>
        ELSE IF run.hasUnderline
        THEN <<tagSpanOpen>> \o formattedText \o <<tagSpanClose>>
        ELSE IF run.hasBold
        THEN <<tagStrongOpen>> \o formattedText \o <<tagStrongClose>>
        ELSE formattedText

\* mutant of IntMax: the first argument whatever the second is
IntMaxFirst(a, b) == a

IntMax(a, b) == IF a >= b THEN a ELSE b
IntMin(a, b) == IF a <= b THEN a ELSE b

RECURSIVE FormatRuns(_, _, _)
\* the loop over the runs of buildFormattedText
FormatRuns(runs, startPos, endPos) ==
    IF runs = <<>> THEN <<>>
    ELSE LET run == Head(runs)
             rest == FormatRuns(Tail(runs), startPos, endPos)
         IN  IF run.end <= startPos \/ run.start >= endPos THEN rest
             ELSE LET overlapStart == IntMax(run.start, startPos)
                      overlapEnd == IntMin(run.end, endPos)
                      runOffset == overlapStart - run.start
                      runLength == overlapEnd - overlapStart
                      textPortion == Slice(run.text, runOffset, runOffset + runLength)
                  IN  IF textPortion = <<>> THEN rest
                      ELSE FormatPortion(run, textPortion) \o rest

buildFormattedText(runs, startPos, endPos) ==
    Trim(CollapseWS(FormatRuns(runs, startPos, endPos)))

----------------------------------------------------------------------------
(* Option/Answer Extractor *)

OptionLetters == <<"A", "B", "C", "D">>
LetterRank(l) == CHOOSE k \in 1..Len(OptionLetters) : OptionLetters[k] = l

\* offsets at or after from where /([A-D])[\.\)]\s*/ matches
MarkerOffsets(line, from) ==
    {p \in from..(Len(line) - 2) :
        /\ \E k \in 1..Len(OptionLetters) : OptionLetters[k] = CharAt(line, p)
        /\ CharAt(line, p + 1) \in {".", ")"}}

RECURSIVE ScanMarkers(_, _)
\* the while loop of optionRegex.exec(line), lastIndex = from
ScanMarkers(line, from) ==
    IF MarkerOffsets(line, from) = {} THEN <<>>
    ELSE LET index == SetMin(MarkerOffsets(line, from))
             last == SkipWS(line, index + 2)
         IN  << [letter       |-> ToUpper(CharAt(line, index)),
                 matchStart   |-> index,
                 matchEnd     |-> last - (IF CharAt(line, last - 1) = " " THEN 1 ELSE 0),
                 contentStart |-> last] >>
             \o ScanMarkers(line, last)

\* mutant of LetterExists: the letter is never found
LetterExistsNever(options, letter) == FALSE

\* question.options.find(o => o.letter === letter)
LetterExists(options, letter) ==
    \E k \in 1..Len(options) : options[k].letter = letter

\* mutant of HighlightOverlaps: a run that only touches the span counts
HighlightTouches(runs, matchStart, nextStart) ==
    \E k \in 1..Len(runs) :
        /\ IntMax(runs[k].start, matchStart) <= IntMin(runs[k].end, nextStart)
        /\ runs[k].hasHighlight

\* some run that overlaps [matchStart, nextStart) is highlighted
HighlightOverlaps(runs, matchStart, nextStart) ==
    \E k \in 1..Len(runs) :
        /\ IntMax(runs[k].start, matchStart) < IntMin(runs[k].end, nextStart)
        /\ runs[k].hasHighlight

RECURSIVE InsertOption(_, _)
\* o put into the sorted list before the first option of a greater letter
InsertOption(sorted, o) ==
    IF sorted = <<>> THEN <<o>>
    ELSE IF LetterRank(sorted[Len(sorted)].letter) <= LetterRank(o.letter)
         THEN Append(sorted, o)
         ELSE Append(InsertOption(SubSeq(sorted, 1, Len(sorted) - 1), o), sorted[Len(sorted)])

RECURSIVE SortOptions(_)
\* options.sort((a, b) => a.letter.localeCompare(b.letter)), a stable sort
SortOptions(options) ==
    IF options = <<>> THEN <<>>
    ELSE InsertOption(SortOptions(SubSeq(options, 1, Len(options) - 1)),
                      options[Len(options)])

RECURSIVE AddOptions(_, _, _, _)
\* the for loop over matches, from index i (1-based) on
AddOptions(pData, matches, i, options) ==
    IF i > Len(matches) THEN options
    ELSE LET line == pData.text
             letter == matches[i].letter
             matchStart == matches[i].matchStart
             contentStart == matches[i].contentStart
             nextStart == IF i + 1 <= Len(matches) THEN matches[i + 1].matchStart
                          ELSE Len(line)
             optionText == Trim(CollapseWS(Trim(Slice(line, contentStart, nextStart))))
         IN  IF LetterExists(options, letter) \/ optionText = <<>>
             THEN AddOptions(pData, matches, i + 1, options)
             ELSE AddOptions(pData, matches, i + 1,
                     Append(options,
                            [letter            |-> letter,
                             text              |-> optionText,
                             textWithUnderline |-> buildFormattedText(pData.runs, contentStart, nextStart),
                             isCorrect         |-> HighlightOverlaps(pData.runs, matchStart, nextStart)]))

\* mutant of extractOptionsWithUnderline: two options make the question
\* multiple-choice whatever its type is
extractOptionsRetyping(pData, question) ==
    LET matches == ScanMarkers(pData.text, 0)
    IN  IF Len(matches) = 0 THEN question
        ELSE LET options == AddOptions(pData, matches, 1, question.options)
             IN  [question EXCEPT
                    !.type = IF Len(options) >= 2 THEN "multiple_choice" ELSE @,
                    !.options = SortOptions(options)]

\* mutant of extractOptionsWithUnderline: the options are left in the order
\* in which they were found
extractOptionsUnsorted(pData, question) ==
    LET matches == ScanMarkers(pData.text, 0)
    IN  IF Len(matches) = 0 THEN question
        ELSE LET options == AddOptions(pData, matches, 1, question.options)
             IN  [question EXCEPT
                    !.type = IF Len(options) >= 2 /\ question.type # "writing"
                             THEN "multiple_choice" ELSE @,
                    !.options = options]

\* the question after extractOptionsWithUnderline(pData, question)
extractOptionsWithUnderline(pData, question) ==
    LET matches == ScanMarkers(pData.text, 0)
    IN  IF Len(matches) = 0 THEN question
        ELSE LET options == AddOptions(pData, matches, 1, question.options)
             IN  [question EXCEPT
                    !.type = IF Len(options) >= 2 /\ question.type # "writing"
                             THEN "multiple_choice" ELSE @,
                    !.options = SortOptions(options)]

----------------------------------------------------------------------------
(* The documents: every w:p element of a document is one of Paragraphs *)

\* "SECTION A. GRAMMAR: 2.0 POINTS"
tSection ==
    <<"S","E","C","T","I","O","N"," ","A","."," ","G","R","A","M","M","A",
      "R",":"," ","2",".","0"," ","P","O","I","N","T","S">>
\* "Câu 1. Choose the best answer. A. cat "
tQ1Stem ==
    <<"C","â","u"," ","1","."," ","C","h","o","o","s","e"," ","t","h","e",
      " ","b","e","s","t"," ","a","n","s","w","e","r","."," ","A","."," ",
      "c","a","t"," ">>
\* "B. dog"
tQ1Dog == <<"B","."," ","d","o","g">>
\* "Đáp án: ..."
tAnswer == <<DStroke,"á","p"," ","á","n",":"," ",".",".",".">>
\* "Đáp án: were"
tAnswerWere == <<DStroke,"á","p"," ","á","n",":"," ","w","e","r","e">>
\* "Câu 5. I wish I ___ taller."
tQ5Wish ==
    <<"C","â","u"," ","5","."," ","I"," ","w","i","s","h"," ","I"," ","_",
      "_","_"," ","t","a","l","l","e","r",".">>
\* "Câu 1: "
tQ1Colon == <<"C","â","u"," ","1",":"," ">>
\* "B) no A) ok"
tNoOk == <<"B",")"," ","n","o"," ","A",")"," ","o","k">>
\* "C. "
tOptC == <<"C","."," ">>
\* "u&\t p "
tOptCText == <<"u","&","\t"," ","p"," ">>
\* "D. on"
tOptD == <<"D","."," ","o","n">>
\* "A. cat"
tOptA == <<"A","."," ","c","a","t">>
\* "I. Read the text"
tPart == <<"I","."," ","R","e","a","d"," ","t","h","e"," ","t","e","x","t">>
\* "Stewart the Dragon"
tDragon ==
    <<"S","t","e","w","a","r","t"," ","t","h","e"," ","D","r","a","g","o","n">>
\* "He ate."
tProse == <<"H","e"," ","a","t","e",".">>
\* "  "
tSpaces == <<" "," ">>
\* "Câu 5"
tCauBare == <<"C","â","u"," ","5">>

sYellow == <<"y","e","l","l","o","w">>
sFill == <<"f","f","f","f","0","0">>
sSingle == <<"s","i","n","g","l","e">>

NoProps == [highlight |-> Null, shd |-> Null, u |-> Null, b |-> Null]

\* w:r elements
Plain(text) == [text |-> text, rPr |-> Null]
Highlighted(text) ==
    [text |-> text, rPr |-> Some([NoProps EXCEPT !.highlight = Some(Some(sYellow))])]
Shaded(text) ==
    [text |-> text, rPr |-> Some([NoProps EXCEPT !.shd = Some(Some(sFill))])]
Unmarked(text) ==
    [text |-> text,
     rPr  |-> Some([NoProps EXCEPT !.highlight = Some(Some(sNone)),
                                   !.u = Some(Some(sSingle))])]
Bold(text) == [text |-> text, rPr |-> Some([NoProps EXCEPT !.b = Some(Null)])]
BoldShaded(text) ==
    [Bold(text) EXCEPT !.rPr = Some([Val(@) EXCEPT !.shd = Some(Some(sFill))])]

pSection == <<Plain(tSection)>>
pQ1CatDog == <<Plain(tQ1Stem), Highlighted(tQ1Dog)>>
pAnswer == <<Plain(tAnswer)>>
pAnswerWere == <<Plain(tAnswerWere)>>
pQ5Wish == <<Plain(tQ5Wish)>>
pQ1NoOk == <<Plain(tQ1Colon), Plain(<<>>), Shaded(tNoOk)>>
pOptsCD == <<Unmarked(tOptC), BoldShaded(tOptCText), Plain(tOptD)>>
pOptA == <<Plain(tOptA)>>
pPart == <<Plain(tPart)>>
pDragon == <<Plain(tDragon)>>
pProse == <<Plain(tProse)>>
pBlank == <<Plain(<<>>), Plain(tSpaces)>>
pCauBare == <<Plain(tCauBare)>>

Paragraphs ==
    { pSection, pQ1CatDog, pAnswer, pAnswerWere, pQ5Wish, pQ1NoOk, pOptsCD, pOptA,
      pPart, pDragon, pProse, pBlank, pCauBare }

----------------------------------------------------------------------------
(* State *)

VARIABLES
    pc,               \* where parseWordToExam stands
    file,             \* the File: is it a zip, its word/document.xml entry, is that XML
    thrown,           \* Null, or Some of the error the promise is rejected with
    paragraphs,       \* the w:p elements processed so far, in document order
    currentSection,   \* Null or Some(SectionInfo)
    currentPart,      \* Null or Some(line)
    currentQuestion,  \* Null or Some(Question)
    readingPassage,
    inReading,
    examData,
    validation,       \* Null, or Some of the result of validateExamData(examData)
    formatCall,       \* Null, or Some of the arguments of a call of buildFormattedText
    formatted,        \* Null, or Some of what that call returned
    \* the ExamRoom component: its useState values
    exam,             \* Null or Some(Exam)
    submissionId,     \* Null or Some(id)
    userAnswers,      \* question number -> answer
    timeLeft,
    isLoading,
    isSubmitting,
    showConfirmSubmit,
    roomStatus,
    \* the ExamRoom component: what is in progress outside its state
    session,          \* "none", "mounted", or "submitted" once onSubmitted was invoked
    loadExam,         \* where the async loadExam stands
    subscribed,       \* the render whose handleSubmit the room subscription calls
    timerRender,      \* the render whose handleSubmit the timer effect and interval call
    timerEffectDue,   \* timeLeft changed and the timer effect has not run yet
    submitCalls,      \* the calls of submitExam, in order
    inFlight,         \* the indices of the calls whose promise is not settled
    rejected,         \* the indices of the calls whose promise was rejected
    closeReport,      \* Null, or Some of the number of calls made when 'closed' was
                      \* reported with exam and submissionId loaded
    groupedQuestions  \* Null or Some of the value of the useMemo

vars == <<pc, file, thrown, paragraphs, currentSection, currentPart, currentQuestion,
          readingPassage, inReading, examData, validation, formatCall, formatted,
          exam, submissionId, userAnswers, timeLeft, isLoading, isSubmitting,
          showConfirmSubmit, roomStatus, session, loadExam, subscribed, timerRender,
          timerEffectDue, submitCalls, inFlight, rejected, closeReport, groupedQuestions>>

formatVars == <<formatCall, formatted>>

stateVars ==
    <<exam, submissionId, userAnswers, timeLeft, isLoading, isSubmitting,
      showConfirmSubmit, roomStatus>>

roomVars ==
    <<stateVars, session, loadExam, subscribed, timerRender, timerEffectDue, submitCalls,
      inFlight, rejected, closeReport, groupedQuestions>>

\* no ExamRoom is mounted
NoExamRoom ==
    /\ exam = Null
    /\ submissionId = Null
    /\ userAnswers = <<>>
    /\ timeLeft = 0
    /\ isLoading = FALSE
    /\ isSubmitting = FALSE
    /\ showConfirmSubmit = FALSE
    /\ roomStatus = "waiting"
    /\ session = "none"
    /\ loadExam = "done"
    /\ subscribed = Null
    /\ timerRender = Null
    /\ timerEffectDue = FALSE
    /\ submitCalls = <<>>
    /\ inFlight = {}
    /\ rejected = {}
    /\ closeReport = Null
    /\ groupedQuestions = Null

context == <<currentSection, currentPart, currentQuestion, readingPassage, inReading>>

\* the title 'Đề thi Tiếng Anh'
ExamTitle == "De thi Tieng Anh"

NewExamData ==
    [title |-> ExamTitle, timeLimit |-> 60, sections |-> <<>>, questions |-> <<>>,
     answers |-> <<>>]

Files == [zip : BOOLEAN, entry : {"absent", "empty", "present"}, wellFormed : BOOLEAN]

Init ==
    /\ pc = "loadAsync"
    /\ file \in Files
    /\ thrown = Null
    /\ paragraphs = <<>>
    /\ currentSection = Null
    /\ currentPart = Null
    /\ currentQuestion = Null
    /\ readingPassage = <<>>
    /\ inReading = FALSE
    /\ examData = NewExamData
    /\ validation = Null
    /\ formatCall = Null
    /\ formatted = Null
    /\ NoExamRoom

----------------------------------------------------------------------------
(* parseWordToExam up to the call of parseDocumentXML *)

\* JSZip.loadAsync(arrayBuffer): rejects when the bytes are no zip archive
LoadZip ==
    /\ pc = "loadAsync"
    /\ IF file.zip
       THEN pc' = "readEntry" /\ thrown' = thrown
       ELSE pc' = "rejected" /\ thrown' = Some("JSZip: not a zip file")
    /\ UNCHANGED <<formatVars, roomVars, file, paragraphs, context, examData, validation>>

\* mutant of ReadDocumentXml: the entry is not tested before it is parsed
ReadDocumentXmlUnchecked ==
    /\ pc = "readEntry"
    /\ pc' = "parseFromString"
    /\ UNCHANGED <<formatVars, roomVars, file, thrown, paragraphs, context, examData, validation>>

\* zip.file('word/document.xml')?.async('string'); if (!documentXml) throw
ReadDocumentXml ==
    /\ pc = "readEntry"
    /\ IF file.entry = "present"
       THEN pc' = "parseFromString" /\ thrown' = thrown
       ELSE pc' = "rejected" /\ thrown' = Some("document.xml not found")
    /\ UNCHANGED <<formatVars, roomVars, file, paragraphs, context, examData, validation>>

\* parser.parseFromString(documentXml, 'application/xml') returns a Document
\* whatever the text is: for text that is not well-formed the Document holds
\* a parsererror element and the w:p elements the browser kept, if any
ParseFromString ==
    /\ pc = "parseFromString"
    /\ pc' = "paragraphs"
    /\ UNCHANGED <<formatVars, roomVars, file, thrown, paragraphs, context, examData, validation>>

----------------------------------------------------------------------------
(* parseDocumentXML and parseQuestionsFromParagraphs, one w:p at a time *)

\* the branch of the loop body of parseQuestionsFromParagraphs taken by line
LineRole(line, reading, hasQuestion) ==
    IF SectionMatch(line) # Null THEN "section"
    ELSE IF IsPartHeader(line) THEN "part"
    ELSE IF PassageStartMatch(line) THEN "passageStart"
    ELSE IF reading /\ ~CauMatch(line) THEN "passage"
    ELSE IF QMatch(line) # Null THEN "question"
    ELSE IF hasQuestion /\ OptionLineMatch(line) THEN "option"
    ELSE IF AnsMatch(line) # Null /\ hasQuestion THEN "answer"
    ELSE IF hasQuestion THEN "continuation"
    ELSE "discarded"

\* what the two loops compute from a w:p element alone, computed once for
\* each element of Paragraphs
DataOf == [p \in Paragraphs |-> ParagraphDataOf(p)]
LineOf == [p \in Paragraphs |-> Trim(DataOf[p].text)]
KeptOf == [p \in Paragraphs |-> KeptParagraph(DataOf[p])]
RoleOf ==
    [p \in Paragraphs |->
        [reading \in BOOLEAN |->
            [hasQuestion \in BOOLEAN |-> LineRole(LineOf[p], reading, hasQuestion)]]]

\* the w:p element p is the next one and its line takes the branch role
Takes(p, role) ==
    /\ pc = "paragraphs"
    /\ Len(paragraphs) < MaxParas
    /\ KeptOf[p]
    /\ RoleOf[p][inReading][currentQuestion # Null] = role
    /\ paragraphs' = Append(paragraphs, p)

\* mutant of AfterPassageCheck: a line that begins a question leaves
\* inReading as it is
AfterPassageKeep(line) == inReading

\* } else if (line.match(/^Câu\s*\d+/i)) { inReading = false; }
AfterPassageCheck(line) == IF CauMatch(line) THEN FALSE ELSE inReading

\* mutant of Finalize: the type is left as it is
FinalizeSkipped(q) == q

\* the type of a question that is pushed
Finalize(q) ==
    IF q.type = "unknown"
    THEN [q EXCEPT !.type = IF Len(q.options) >= 2 THEN "multiple_choice" ELSE "writing"]
    ELSE q

\* mutant of PushCurrent: a question whose number is already in the list
\* is not pushed
PushCurrentOnce(questions, current) ==
    IF current # Null
          /\ ~\E k \in 1..Len(questions) : questions[k].number = Val(current).number
    THEN Append(questions, Finalize(Val(current)))
    ELSE questions

\* examData.questions after if (currentQuestion) { ... push(currentQuestion) }
PushCurrent(questions, current) ==
    IF current # Null THEN Append(questions, Finalize(Val(current))) ELSE questions

\* a w:p element whose text is empty after trim is not kept
BlankParagraph(p) ==
    /\ pc = "paragraphs"
    /\ Len(paragraphs) < MaxParas
    /\ ~KeptOf[p]
    /\ paragraphs' = Append(paragraphs, p)
    /\ UNCHANGED <<formatVars, roomVars, pc, file, thrown, context, examData, validation>>

\* mutant of SectionHeader: the header also becomes the section of the
\* question in progress
SectionHeaderInPlace(p) ==
    /\ Takes(p, "section")
    /\ currentSection' = SectionMatch(LineOf[p])
    /\ currentQuestion' = IF currentQuestion = Null THEN Null
                          ELSE Some([Val(currentQuestion) EXCEPT !.section = currentSection'])
    /\ UNCHANGED <<formatVars, roomVars, pc, file, thrown, currentPart, readingPassage,
                   inReading, examData, validation>>

SectionHeader(p) ==
    /\ Takes(p, "section")
    /\ currentSection' = SectionMatch(LineOf[p])
    /\ UNCHANGED <<formatVars, roomVars, pc, file, thrown, currentPart, currentQuestion, readingPassage,
                   inReading, examData, validation>>

\* mutant of PartHeader: the header ends the passage being read
PartHeaderEndsPassage(p) ==
    /\ Takes(p, "part")
    /\ currentPart' = Some(LineOf[p])
    /\ inReading' = FALSE
    /\ UNCHANGED <<formatVars, roomVars, pc, file, thrown, currentSection, currentQuestion,
                   readingPassage, examData, validation>>

PartHeader(p) ==
    /\ Takes(p, "part")
    /\ currentPart' = Some(LineOf[p])
    /\ UNCHANGED <<formatVars, roomVars, pc, file, thrown, currentSection, currentQuestion, readingPassage,
                   inReading, examData, validation>>

PassageStart(p) ==
    /\ Takes(p, "passageStart")
    /\ inReading' = TRUE
    /\ readingPassage' = Append(LineOf[p], "\n")
    /\ UNCHANGED <<formatVars, roomVars, pc, file, thrown, currentSection, currentPart, currentQuestion,
                   examData, validation>>

PassageLine(p) ==
    /\ Takes(p, "passage")
    /\ readingPassage' = readingPassage \o Append(LineOf[p], "\n")
    /\ UNCHANGED <<formatVars, roomVars, pc, file, thrown, currentSection, currentPart, currentQuestion,
                   inReading, examData, validation>>

QuestionStart(p) ==
    /\ Takes(p, "question")
    /\ LET pData == DataOf[p]
           line == Trim(pData.text)
           qMatch == Val(QMatch(line))
           started == [number        |-> qMatch.qNum,
                       section       |-> currentSection,
                       part          |-> currentPart,
                       text          |-> qMatch.qContent,
                       options       |-> <<>>,
                       correctAnswer |-> Null,
                       type          |-> "unknown",
                       passage       |-> readingPassage,
                       line          |-> Len(paragraphs) + 1]
       IN  /\ inReading' = AfterPassageCheck(line)
           /\ examData' = [examData EXCEPT
                             !.questions = PushCurrent(@, currentQuestion)]
           /\ currentQuestion' = Some(extractOptionsWithUnderline(pData, started))
    /\ UNCHANGED <<formatVars, roomVars, pc, file, thrown, currentSection, currentPart, readingPassage,
                   validation>>

OptionLine(p) ==
    /\ Takes(p, "option")
    /\ LET pData == DataOf[p]
       IN  /\ inReading' = AfterPassageCheck(Trim(pData.text))
           /\ currentQuestion' =
                 Some(extractOptionsWithUnderline(pData, Val(currentQuestion)))
    /\ UNCHANGED <<formatVars, roomVars, pc, file, thrown, currentSection, currentPart, readingPassage,
                   examData, validation>>

AnswerLine(p) ==
    /\ Takes(p, "answer")
    /\ LET line == LineOf[p]
           ansText == Val(AnsMatch(line))
       IN  /\ inReading' = AfterPassageCheck(line)
           /\ currentQuestion' =
                 Some([Val(currentQuestion) EXCEPT
                         !.correctAnswer = IF ansText # <<>> THEN Some(ansText) ELSE @,
                         !.type = "writing"])
    /\ UNCHANGED <<formatVars, roomVars, pc, file, thrown, currentSection, currentPart, readingPassage,
                   examData, validation>>

Continuation(p) ==
    /\ Takes(p, "continuation")
    /\ LET line == LineOf[p]
           q == Val(currentQuestion)
       IN  /\ inReading' = AfterPassageCheck(line)
           /\ currentQuestion' =
                 Some([q EXCEPT !.text = @ \o (IF @ # <<>> THEN <<"\n">> ELSE <<>>) \o line])
    /\ UNCHANGED <<formatVars, roomVars, pc, file, thrown, currentSection, currentPart, readingPassage,
                   examData, validation>>

\* a line that takes no branch: the loop goes on to the next paragraph
Discarded(p) ==
    /\ Takes(p, "discarded")
    /\ inReading' = AfterPassageCheck(LineOf[p])
    /\ UNCHANGED <<formatVars, roomVars, pc, file, thrown, currentSection, currentPart, currentQuestion,
                   readingPassage, examData, validation>>

----------------------------------------------------------------------------
(* End of parseQuestionsFromParagraphs: the last push, the answers of the   *)
(* multiple-choice questions, the sort and the sections                     *)

\* mutant of FirstCorrect: the last such option
LastCorrect(options) ==
    LET marked == {k \in 1..Len(options) : options[k].isCorrect}
    IN  IF marked = {} THEN Null ELSE Some(options[SetMax(marked)])

\* q.options.find(o => o.isCorrect): Null, or Some of the first such option
FirstCorrect(options) ==
    LET marked == {k \in 1..Len(options) : options[k].isCorrect}
    IN  IF marked = {} THEN Null ELSE Some(options[SetMin(marked)])

\* does the forEach body set the answer of q
Resolves(q) == q.type = "multiple_choice" /\ FirstCorrect(q.options) # Null

\* q after the forEach body
ResolveAnswer(q) ==
    IF Resolves(q)
    THEN [q EXCEPT !.correctAnswer = Some(<<Val(FirstCorrect(q.options)).letter>>)]
    ELSE q

\* obj[key] = value
Put(obj, key, value) ==
    [k \in (DOMAIN obj) \cup {key} |-> IF k = key THEN value ELSE obj[k]]

RECURSIVE RecordAnswers(_, _)
\* examData.answers after the forEach over questions (already resolved)
RecordAnswers(questions, answers) ==
    IF questions = <<>> THEN answers
    ELSE LET q == Head(questions)
         IN  RecordAnswers(Tail(questions),
                           IF Resolves(q) THEN Put(answers, q.number, Val(q.correctAnswer))
                           ELSE answers)

\* mutant of InOrder: equal numbers count as out of order
InOrderStrict(a, b) == a.number - b.number < 0

\* the comparator (a, b) => a.number - b.number leaves a before b
InOrder(a, b) == a.number - b.number <= 0

RECURSIVE InsertQuestion(_, _)
\* q put into the sorted list after every question that stays before it
InsertQuestion(sorted, q) ==
    IF sorted = <<>> THEN <<q>>
    ELSE IF InOrder(sorted[Len(sorted)], q)
         THEN Append(sorted, q)
         ELSE Append(InsertQuestion(SubSeq(sorted, 1, Len(sorted) - 1), q),
                     sorted[Len(sorted)])

RECURSIVE SortQuestions(_)
\* questions.sort((a, b) => a.number - b.number), a stable sort
SortQuestions(questions) ==
    IF questions = <<>> THEN <<>>
    ELSE InsertQuestion(SortQuestions(SubSeq(questions, 1, Len(questions) - 1)),
                        questions[Len(questions)])

sDefault == <<"d","e","f","a","u","l","t">>
sSectionPrefix == <<"S","E","C","T","I","O","N"," ">>
\* the name 'Tất cả câu hỏi'
sAllQuestions == <<"Tat ca cau hoi">>

\* q.section ? `${q.section.letter}-${q.section.name}` : 'default'
SectionKey(q) ==
    IF q.section # Null
    THEN <<Val(q.section).letter, "-">> \o Val(q.section).name
    ELSE sDefault

RECURSIVE KeysInOrder(_, _)
\* the keys of sectionMap in insertion order
KeysInOrder(questions, seen) ==
    IF questions = <<>> THEN seen
    ELSE LET key == SectionKey(Head(questions))
         IN  KeysInOrder(Tail(questions),
                         IF \E k \in 1..Len(seen) : seen[k] = key THEN seen
                         ELSE Append(seen, key))

\* mutant of SectionOf: the fields are taken from the last question
SectionOfLast(questions) ==
    LET lastQ == questions[Len(questions)]
    IN  [name        |-> IF lastQ.section # Null
                         THEN sSectionPrefix \o <<Val(lastQ.section).letter, ".", " ">>
                              \o Val(lastQ.section).name
                         ELSE sAllQuestions,
         description |-> IF lastQ.part # Null THEN Val(lastQ.part) ELSE <<>>,
         points      |-> IF lastQ.section # Null THEN Val(lastQ.section).points ELSE <<>>,
         questions   |-> questions,
         readingPassage |-> lastQ.passage]

\* the Section pushed for one entry of sectionMap
SectionOf(questions) ==
    LET firstQ == questions[1]
    IN  [name        |-> IF firstQ.section # Null
                         THEN sSectionPrefix \o <<Val(firstQ.section).letter, ".", " ">>
                              \o Val(firstQ.section).name
                         ELSE sAllQuestions,
         description |-> IF firstQ.part # Null THEN Val(firstQ.part) ELSE <<>>,
         points      |-> IF firstQ.section # Null THEN Val(firstQ.section).points ELSE <<>>,
         questions   |-> questions,
         readingPassage |-> questions[1].passage]

\* mutant of groupQuestionsIntoSections: the sections are pushed from the
\* last key of sectionMap to the first
groupQuestionsLastKeyFirst(questions) ==
    LET keys == KeysInOrder(questions, <<>>)
    IN  [k \in 1..Len(keys) |->
            SectionOf(SelectSeq(questions,
                                LAMBDA q : SectionKey(q) = keys[Len(keys) + 1 - k]))]

\* examData.sections after groupQuestionsIntoSections
groupQuestionsIntoSections(questions) ==
    LET keys == KeysInOrder(questions, <<>>)
    IN  [k \in 1..Len(keys) |->
            SectionOf(SelectSeq(questions, LAMBDA q : SectionKey(q) = keys[k]))]

\* the loop of parseQuestionsFromParagraphs is over: parseDocumentXML returns
\* examData and the promise of parseWordToExam is fulfilled with it
Finish ==
    /\ pc = "paragraphs"
    /\ LET pushed == PushCurrent(examData.questions, currentQuestion)
           resolved == [k \in 1..Len(pushed) |-> ResolveAnswer(pushed[k])]
           sorted == SortQuestions(resolved)
       IN  examData' = [examData EXCEPT
                          !.questions = sorted,
                          !.answers = RecordAnswers(resolved, @),
                          !.sections = groupQuestionsIntoSections(sorted)]
    /\ pc' = "returned"
    /\ UNCHANGED <<formatVars, roomVars, file, thrown, paragraphs, context, validation>>

----------------------------------------------------------------------------
(* Validator *)

errNoQuestions == "Khong tim thay cau hoi nao trong file"
errNoText == "Thieu noi dung cau hoi"
errNoOptions == "Thieu dap an lua chon"
errNoAnswer == "Chua danh dau dap an dung (highlight)"

\* mutant of QuestionErrors: a missing correct answer is not reported
QuestionErrorsNoAnswer(q) ==
    (IF q.text = <<>> /\ Len(q.options) = 0 THEN << <<errNoText, q.number>> >> ELSE <<>>)
    \o (IF q.type = "multiple_choice" /\ Len(q.options) = 0
        THEN << <<errNoOptions, q.number>> >> ELSE <<>>)

\* the errors the forEach body pushes for q, as <<message, q.number>>
QuestionErrors(q) ==
    (IF q.text = <<>> /\ Len(q.options) = 0 THEN << <<errNoText, q.number>> >> ELSE <<>>)
    \o (IF q.type = "multiple_choice" /\ Len(q.options) = 0
        THEN << <<errNoOptions, q.number>> >> ELSE <<>>)
    \o (IF ~Truthy(q.correctAnswer) THEN << <<errNoAnswer, q.number>> >> ELSE <<>>)

validateExamData(data) ==
    LET errors ==
            (IF Len(data.questions) = 0 THEN << <<errNoQuestions>> >> ELSE <<>>)
            \o Concat([k \in 1..Len(data.questions) |-> QuestionErrors(data.questions[k])])
    IN  [valid |-> Len(errors) = 0, errors |-> errors]

\* validateExamData(examData) is called
Validate ==
    /\ pc = "returned"
    /\ validation = Null
    /\ validation' = Some(validateExamData(examData))
    /\ UNCHANGED <<formatVars, roomVars, pc, file, thrown, paragraphs, context, examData>>

----------------------------------------------------------------------------
(* Specifications *)

Next ==
    \/ LoadZip
    \/ ReadDocumentXml
    \/ ParseFromString
    \/ \E p \in Paragraphs :
          \/ BlankParagraph(p)
          \/ SectionHeader(p)
          \/ PartHeader(p)
          \/ PassageStart(p)
          \/ PassageLine(p)
          \/ QuestionStart(p)
          \/ OptionLine(p)
          \/ AnswerLine(p)
          \/ Continuation(p)
          \/ Discarded(p)
    \/ Finish

Spec == Init /\ [][Next]_vars

\* the Questions of an ExamData that a caller may hand to validateExamData
twoOptions ==
    << [letter |-> "A", text |-> <<"x">>, textWithUnderline |-> <<"x">>, isCorrect |-> FALSE],
       [letter |-> "B", text |-> <<"y">>, textWithUnderline |-> <<"y">>, isCorrect |-> TRUE] >>

ValidatedQuestions ==
    [number : {1, 2}, section : {Null}, part : {Null}, text : {<<>>, <<"t">>},
     options : {<<>>, twoOptions}, correctAnswer : {Null, Some(<<>>), Some(<<"B">>)},
     type : {"multiple_choice", "writing"}, passage : {<<>>}, line : {0}]

RECURSIVE SeqsUpTo(_, _)
\* the sequences over S of length at most n
SeqsUpTo(S, n) ==
    IF n = 0 THEN {<<>>}
    ELSE LET shorter == SeqsUpTo(S, n - 1)
         IN  shorter \cup {Append(q, x) : q \in shorter, x \in S}

\* validateExamData as a function of its argument: any ExamData
InitV ==
    /\ pc = "returned"
    /\ file = [zip |-> TRUE, entry |-> "present", wellFormed |-> TRUE]
    /\ thrown = Null
    /\ paragraphs = <<>>
    /\ currentSection = Null
    /\ currentPart = Null
    /\ currentQuestion = Null
    /\ readingPassage = <<>>
    /\ inReading = FALSE
    /\ \E questions \in SeqsUpTo(ValidatedQuestions, MaxValidated) :
          examData = [NewExamData EXCEPT !.questions = questions]
    /\ validation = Null
    /\ formatCall = Null
    /\ formatted = Null
    /\ NoExamRoom

NextV == Validate

SpecV == InitV /\ [][NextV]_vars

----------------------------------------------------------------------------
(* buildFormattedText as a function of its arguments: the runs of a w:p     *)
(* element, as the run extractor leaves them, and any two offsets of its    *)
(* text                                                                     *)

FormatCalls ==
    UNION {[runs : {ParagraphDataOf(p).runs}, startPos : 0..Len(ParagraphDataOf(p).text),
            endPos : 0..Len(ParagraphDataOf(p).text)] : p \in Paragraphs}

InitF ==
    /\ pc = "buildFormattedText"
    /\ file = [zip |-> TRUE, entry |-> "present", wellFormed |-> TRUE]
    /\ thrown = Null
    /\ paragraphs = <<>>
    /\ currentSection = Null
    /\ currentPart = Null
    /\ currentQuestion = Null
    /\ readingPassage = <<>>
    /\ inReading = FALSE
    /\ examData = NewExamData
    /\ validation = Null
    /\ \E call \in FormatCalls : formatCall = Some(call)
    /\ formatted = Null
    /\ NoExamRoom

BuildFormattedText ==
    /\ pc = "buildFormattedText"
    /\ formatted = Null
    /\ LET call == Val(formatCall)
       IN  formatted' = Some(buildFormattedText(call.runs, call.startPos, call.endPos))
    /\ UNCHANGED <<roomVars, pc, file, thrown, paragraphs, context, examData, validation,
                   formatCall>>

NextF == BuildFormattedText

SpecF == InitF /\ [][NextF]_vars

----------------------------------------------------------------------------
(* groupQuestionsIntoSections as a function of the sorted list: the        *)
(* Questions of any document, which carry the section and part of the last *)
(* header before their question-start line, sorted by number               *)

\* "SECTION B. READING: 1 POINT"
tSectionB ==
    <<"S","E","C","T","I","O","N"," ","B","."," ","R","E","A","D","I","N",
      "G",":"," ","1"," ","P","O","I","N","T">>

GroupedQuestions ==
    [number : {1, 2}, section : {Null, SectionMatch(tSection), SectionMatch(tSectionB)},
     part : {Null, Some(tPart)}, text : {<<>>}, options : {<<>>}, correctAnswer : {Null},
     type : {"writing"}, passage : {<<>>}, line : {0}]

\* currentSection and currentPart are never reset: once a Question has a
\* section or a part, every Question started later has one
InDocumentOrder(doc) ==
    \A i, j \in 1..Len(doc) :
        i < j => /\ (doc[i].section # Null => doc[j].section # Null)
                 /\ (doc[i].part # Null => doc[j].part # Null)

InitG ==
    /\ pc = "groupQuestionsIntoSections"
    /\ file = [zip |-> TRUE, entry |-> "present", wellFormed |-> TRUE]
    /\ thrown = Null
    /\ paragraphs = <<>>
    /\ currentSection = Null
    /\ currentPart = Null
    /\ currentQuestion = Null
    /\ readingPassage = <<>>
    /\ inReading = FALSE
    /\ \E doc \in SeqsUpTo(GroupedQuestions, MaxGrouped) :
          /\ InDocumentOrder(doc)
          /\ examData = [NewExamData EXCEPT
                           !.questions =
                               SortQuestions([k \in 1..Len(doc) |->
                                                 [doc[k] EXCEPT !.line = k]])]
    /\ validation = Null
    /\ formatCall = Null
    /\ formatted = Null
    /\ NoExamRoom

GroupQuestions ==
    /\ pc = "groupQuestionsIntoSections"
    /\ examData' = [examData EXCEPT !.sections = groupQuestionsIntoSections(examData.questions)]
    /\ pc' = "returned"
    /\ UNCHANGED <<formatVars, roomVars, file, thrown, paragraphs, context, validation>>

NextG == GroupQuestions

SpecG == InitG /\ [][NextG]_vars

----------------------------------------------------------------------------
(* ExamRoom: groupedQuestions, the useMemo over exam.questions.             *)
(* A field of a Question that the Question interface marks optional is      *)
(* Undefined (absent), Null, or Some(value).                                *)

Undefined == <<"undefined", "undefined">>

\* JSON.stringify of a section: undefined for undefined, the text null for
\* null, the text of the object otherwise
JsonStringify(v) ==
    IF v = Undefined THEN Undefined
    ELSE IF v = Null THEN <<"null">>
    ELSE <<"{", "letter", Val(v).letter, "name", Val(v).name, "points", Val(v).points, "}">>

\* v used as a condition: undefined, null and '' are falsy
TruthyValue(v) == v # Undefined /\ v # Null /\ v # Some(<<>>)

\* v || null
OrNull(v) == IF TruthyValue(v) THEN v ELSE Null

NoGroups ==
    [groups |-> <<>>, currentSection |-> Null, currentPart |-> Null,
     currentPassage |-> Null, currentGroup |-> <<>>, printedPassages |-> {}]

\* mutant of ShownPassage: the passage whether printed before or not
ShownPassageAgain(q, printedPassages) ==
    IF TruthyValue(q.passage) THEN q.passage ELSE Null

\* q.passage && !printedPassages.has(q.passage) ? q.passage : null
ShownPassage(q, printedPassages) ==
    IF TruthyValue(q.passage) /\ Val(q.passage) \notin printedPassages
    THEN q.passage ELSE Null

\* groups with the current group pushed
PushGroup(g) ==
    Append(g.groups, [section |-> g.currentSection, part |-> g.currentPart,
                      passage |-> g.currentPassage, questions |-> g.currentGroup])

\* the body of exam.questions.forEach for q, the last question or not
GroupQuestion(g, q, isLastQuestion) ==
    LET sectionChanged == JsonStringify(q.section) # JsonStringify(g.currentSection)
        partChanged == q.part # g.currentPart
        placed ==
            IF sectionChanged \/ partChanged
            THEN [groups          |-> IF Len(g.currentGroup) > 0 THEN PushGroup(g)
                                      ELSE g.groups,
                  currentSection  |-> OrNull(q.section),
                  currentPart     |-> OrNull(q.part),
                  currentPassage  |-> ShownPassage(q, g.printedPassages),
                  currentGroup    |-> <<q>>,
                  printedPassages |-> IF TruthyValue(q.passage)
                                      THEN g.printedPassages \cup {Val(q.passage)}
                                      ELSE g.printedPassages]
            ELSE [g EXCEPT !.currentGroup = Append(@, q)]
    IN  IF isLastQuestion /\ Len(placed.currentGroup) > 0
        THEN [placed EXCEPT !.groups = PushGroup(placed)]
        ELSE placed

RECURSIVE GroupFrom(_, _, _)
\* the forEach from index idx (1-based) on
GroupFrom(questions, idx, g) ==
    IF idx > Len(questions) THEN g
    ELSE GroupFrom(questions, idx + 1,
                   GroupQuestion(g, questions[idx], idx = Len(questions)))

\* the value of the useMemo
GroupedQuestionsOf(examOrNull) ==
    IF examOrNull = Null THEN <<>>
    ELSE GroupFrom(Val(examOrNull).questions, 1, NoGroups).groups

DisplayedQuestions ==
    [number  : {1},
     section : {Undefined, Null, SectionMatch(tSection)},
     part    : {Undefined, Null, Some(tPart)},
     passage : {Undefined, Some(tDragon)}]

\* groupedQuestions as a function of exam: any list of Questions
InitD ==
    /\ pc = "returned"
    /\ file = [zip |-> TRUE, entry |-> "present", wellFormed |-> TRUE]
    /\ thrown = Null
    /\ paragraphs = <<>>
    /\ currentSection = Null
    /\ currentPart = Null
    /\ currentQuestion = Null
    /\ readingPassage = <<>>
    /\ inReading = FALSE
    /\ examData = NewExamData
    /\ validation = Null
    /\ formatCall = Null
    /\ formatted = Null
    /\ \E questions \in SeqsUpTo(DisplayedQuestions, MaxDisplayed) :
          exam = Some([questions |-> questions])
    /\ submissionId = Null
    /\ userAnswers = <<>>
    /\ timeLeft = 0
    /\ isLoading = FALSE
    /\ isSubmitting = FALSE
    /\ showConfirmSubmit = FALSE
    /\ roomStatus = "active"
    /\ session = "mounted"
    /\ loadExam = "done"
    /\ subscribed = Null
    /\ timerRender = Null
    /\ timerEffectDue = FALSE
    /\ submitCalls = <<>>
    /\ inFlight = {}
    /\ rejected = {}
    /\ closeReport = Null
    /\ groupedQuestions = Null

\* the render that evaluates the useMemo for exam
RenderGroups ==
    /\ session = "mounted"
    /\ groupedQuestions = Null
    /\ groupedQuestions' = Some(GroupedQuestionsOf(exam))
    /\ UNCHANGED <<formatVars, stateVars, session, loadExam, subscribed, timerRender,
                   timerEffectDue, submitCalls, inFlight, rejected, closeReport,
                   pc, file, thrown, paragraphs, context, examData, validation>>

NextD == RenderGroups

SpecD == InitD /\ [][NextD]_vars

----------------------------------------------------------------------------
(* ExamRoom: one mounted session. A render's handleSubmit reads the exam,   *)
(* submissionId and userAnswers of that render; an effect keeps the         *)
(* handleSubmit of the render in which it last ran.                         *)

\* what the handleSubmit of the current render reads
Render == [exam |-> exam, submissionId |-> submissionId, userAnswers |-> userAnswers]

\* what the handleSubmit of the first render reads
FirstRender(existingSubmissionId) ==
    [exam |-> Null, submissionId |-> existingSubmissionId, userAnswers |-> <<>>]

\* the Exam that getExam resolves with
LoadedExam == Some([questions |-> <<[number |-> 1, section |-> Null, part |-> Null,
                                    passage |-> Undefined]>>])

submitVars == <<isSubmitting, showConfirmSubmit, submitCalls, inFlight>>

parserVars == <<pc, file, thrown, paragraphs, context, examData, validation>>

\* handleSubmit(true) of the render c, up to the await of submitExam; by is
\* the caller, current the userAnswers state at the time of the call
HandleSubmit(c, by) ==
    IF c.exam = Null \/ c.submissionId = Null
    THEN UNCHANGED submitVars
    ELSE /\ isSubmitting' = TRUE
         /\ showConfirmSubmit' = FALSE
         /\ submitCalls' = Append(submitCalls, [by |-> by, answers |-> c.userAnswers,
                                                current |-> userAnswers])
         /\ inFlight' = inFlight \cup {Len(submitCalls) + 1}

\* the state after the first render and its effects: loadExam awaits
\* getExam, the room is subscribed to, the interval is set
InitR ==
    /\ pc = "returned"
    /\ file = [zip |-> TRUE, entry |-> "present", wellFormed |-> TRUE]
    /\ thrown = Null
    /\ paragraphs = <<>>
    /\ currentSection = Null
    /\ currentPart = Null
    /\ currentQuestion = Null
    /\ readingPassage = <<>>
    /\ inReading = FALSE
    /\ examData = NewExamData
    /\ validation = Null
    /\ formatCall = Null
    /\ formatted = Null
    /\ exam = Null
    /\ \E existingSubmissionId \in {Null, Some("s0")} :
          /\ submissionId = existingSubmissionId
          /\ subscribed = Some(FirstRender(existingSubmissionId))
          /\ timerRender = Some(FirstRender(existingSubmissionId))
    /\ userAnswers = <<>>
    /\ timeLeft = MaxTime
    /\ isLoading = TRUE
    /\ isSubmitting = FALSE
    /\ showConfirmSubmit = FALSE
    /\ roomStatus \in {"waiting", "active"}
    /\ session = "mounted"
    /\ loadExam = "getExam"
    /\ timerEffectDue = FALSE
    /\ submitCalls = <<>>
    /\ inFlight = {}
    /\ rejected = {}
    /\ closeReport = Null
    /\ groupedQuestions = Null

\* an event is handled: the component is mounted and no effect is pending
Handles == session = "mounted" /\ ~timerEffectDue

\* the await of getExam ends: with the exam, or with null or an error
GetExam(found) ==
    /\ Handles
    /\ loadExam = "getExam"
    /\ IF found
       THEN /\ exam' = LoadedExam
            /\ IF submissionId = Null
               THEN loadExam' = "createSubmission" /\ UNCHANGED isLoading
               ELSE loadExam' = "done" /\ isLoading' = FALSE
       ELSE /\ loadExam' = "done"
            /\ isLoading' = FALSE
            /\ UNCHANGED exam
    /\ UNCHANGED <<formatVars, parserVars, submissionId, userAnswers, timeLeft,
                   submitVars, roomStatus, session, subscribed, timerRender,
                   timerEffectDue, rejected, closeReport, groupedQuestions>>

\* the await of createSubmission ends: with the new id, and the effect runs
\* again for the changed submissionId, or with an error
CreateSubmission(created) ==
    /\ Handles
    /\ loadExam = "createSubmission"
    /\ IF created
       THEN submissionId' = Some("s1") /\ loadExam' = "getExam"
       ELSE loadExam' = "done" /\ UNCHANGED submissionId
    /\ isLoading' = FALSE
    /\ UNCHANGED <<formatVars, parserVars, exam, userAnswers, timeLeft,
                   submitVars, roomStatus, session, subscribed, timerRender,
                   timerEffectDue, rejected, closeReport, groupedQuestions>>

\* the callback of subscribeToRoom for a room of the status; closeReport
\* remembers how many calls of submitExam had ended with an error before the
\* first report of closed that came with the exam and the submission id loaded
RoomUpdate(status) ==
    /\ Handles
    /\ roomStatus' = status
    /\ IF status = "closed"
       THEN HandleSubmit(Val(subscribed), "closed")
       ELSE UNCHANGED submitVars
    /\ closeReport' = IF /\ status = "closed"
                         /\ closeReport = Null
                         /\ exam # Null
                         /\ submissionId # Null
                      THEN Some(Cardinality(rejected))
                      ELSE closeReport
    /\ UNCHANGED <<formatVars, parserVars, exam, submissionId, userAnswers, timeLeft,
                   isLoading, session, loadExam, subscribed, timerRender,
                   timerEffectDue, rejected, groupedQuestions>>

\* the interval fires: the updater of setTimeLeft
Tick ==
    /\ Handles
    /\ timerRender # Null
    /\ IF timeLeft <= 1
       THEN HandleSubmit(Val(timerRender), "tick") /\ timeLeft' = 0
       ELSE timeLeft' = timeLeft - 1 /\ UNCHANGED submitVars
    /\ timerEffectDue' = TRUE
    /\ UNCHANGED <<formatVars, parserVars, exam, submissionId, userAnswers,
                   isLoading, roomStatus, session, loadExam, subscribed, timerRender,
                   rejected, closeReport, groupedQuestions>>

\* the timer effect of the render with the new timeLeft
TimerEffect ==
    /\ session = "mounted"
    /\ timerEffectDue
    /\ timerEffectDue' = FALSE
    /\ IF timeLeft <= 0
       THEN HandleSubmit(Render, "effect") /\ timerRender' = Null
       ELSE timerRender' = Some(Render) /\ UNCHANGED submitVars
    /\ UNCHANGED <<formatVars, parserVars, exam, submissionId, userAnswers, timeLeft,
                   isLoading, roomStatus, session, loadExam, subscribed,
                   rejected, closeReport, groupedQuestions>>

\* the exam is on screen
Displayed == Handles /\ ~isLoading /\ exam # Null

\* the student picks or types the answer of a question
HandleAnswerChange(questionNumber, answer) ==
    /\ Displayed
    /\ userAnswers' = Put(userAnswers, questionNumber, answer)
    /\ UNCHANGED <<formatVars, parserVars, exam, submissionId, timeLeft, isLoading,
                   submitVars, roomStatus, session, loadExam, subscribed, timerRender,
                   timerEffectDue, rejected, closeReport, groupedQuestions>>

\* a click on one of the two submit buttons
OpenConfirm ==
    /\ Displayed
    /\ ~isSubmitting
    /\ ~showConfirmSubmit
    /\ showConfirmSubmit' = TRUE
    /\ UNCHANGED <<formatVars, parserVars, exam, submissionId, userAnswers, timeLeft,
                   isLoading, isSubmitting, submitCalls, inFlight, roomStatus, session,
                   loadExam, subscribed, timerRender, timerEffectDue, rejected,
                   closeReport, groupedQuestions>>

\* a click on the cancel button of the confirmation
CancelConfirm ==
    /\ Displayed
    /\ showConfirmSubmit
    /\ showConfirmSubmit' = FALSE
    /\ UNCHANGED <<formatVars, parserVars, exam, submissionId, userAnswers, timeLeft,
                   isLoading, isSubmitting, submitCalls, inFlight, roomStatus, session,
                   loadExam, subscribed, timerRender, timerEffectDue, rejected,
                   closeReport, groupedQuestions>>

\* a click on the confirm button of the confirmation
Confirm ==
    /\ Displayed
    /\ showConfirmSubmit
    /\ ~isSubmitting
    /\ Len(submitCalls) < MaxCalls
    /\ HandleSubmit(Render, "confirm")
    /\ UNCHANGED <<formatVars, parserVars, exam, submissionId, userAnswers, timeLeft,
                   isLoading, roomStatus, session, loadExam, subscribed, timerRender,
                   timerEffectDue, rejected, closeReport, groupedQuestions>>

\* the await of the call-th submitExam ends with the Submission:
\* onSubmitted takes the student out of the room
SubmitResolves(call) ==
    /\ call \in inFlight
    /\ inFlight' = inFlight \ {call}
    /\ session' = "submitted"
    /\ isSubmitting' = FALSE
    /\ UNCHANGED <<formatVars, parserVars, exam, submissionId, userAnswers, timeLeft,
                   isLoading, showConfirmSubmit, submitCalls, roomStatus, loadExam,
                   subscribed, timerRender, timerEffectDue, rejected, closeReport,
                   groupedQuestions>>

\* the await of the call-th submitExam ends with an error
SubmitRejects(call) ==
    /\ call \in inFlight
    /\ inFlight' = inFlight \ {call}
    /\ rejected' = rejected \cup {call}
    /\ isSubmitting' = FALSE
    /\ UNCHANGED <<formatVars, parserVars, exam, submissionId, userAnswers, timeLeft,
                   isLoading, showConfirmSubmit, submitCalls, roomStatus, session,
                   loadExam, subscribed, timerRender, timerEffectDue, closeReport,
                   groupedQuestions>>

\* loadExam goes on
Loads == \E settled \in BOOLEAN : GetExam(settled) \/ CreateSubmission(settled)

\* a call of submitExam settles
Settles == \E call \in inFlight : SubmitResolves(call) \/ SubmitRejects(call)

NextR ==
    \/ Loads
    \/ \E status \in {"waiting", "active", "closed"} : RoomUpdate(status)
    \/ Tick
    \/ TimerEffect
    \/ HandleAnswerChange(1, "A")
    \/ OpenConfirm
    \/ CancelConfirm
    \/ Confirm
    \/ Settles

SpecR == InitR /\ [][NextR]_vars

\* the interval and the effects run, and every awaited call settles
FairSpecR ==
    /\ SpecR
    /\ WF_vars(Tick)
    /\ WF_vars(TimerEffect)
    /\ WF_vars(Loads)
    /\ WF_vars(Settles)

----------------------------------------------------------------------------
(* Properties *)

Returned == pc = "returned"
Questions == examData.questions
Answers == examData.answers

sLetterB == <<"B">>
sCat == <<"c","a","t">>
sDog == <<"d","o","g">>
sDots == <<".",".",".">>

\* the kept line of p is a question-start line (whatever the context is)
IsQuestionStart(p) == KeptOf[p] /\ RoleOf[p][FALSE][FALSE] = "question"

\* the indices of the question-start lines of the document
QuestionStarts == {i \in 1..Len(paragraphs) : IsQuestionStart(paragraphs[i])}

\* the letters of the highlighted (inferred-correct) options of q
HighlightedLetters(q) == {q.options[k].letter : k \in {j \in 1..Len(q.options) : q.options[j].isCorrect}}

LeastLetter(S) == CHOOSE l \in S : \A m \in S : LetterRank(l) <= LetterRank(m)

\* q is a multiple-choice Question with a highlighted option
Keyed(q) == q.type = "multiple_choice" /\ HighlightedLetters(q) # {}

\* C1: the answers mapping has an entry for question number N if and only if
\* the Question numbered N has a non-null correct answer, for multiple-choice
\* and free-response questions alike.
C1_AnswersIffCorrectAnswer ==
    Returned =>
        \A k \in 1..Len(Questions) :
            (Questions[k].number \in DOMAIN Answers) <=> (Questions[k].correctAnswer # Null)

\* the document of the scenario of C2 has been parsed
C2_ScenarioParsed ==
    Returned /\ paragraphs = <<pSection, pQ1CatDog, pAnswer>>

\* one Question numbered 1 with the two options A = "cat", B = "dog"
C2_OneQuestionTwoOptions ==
    /\ Len(Questions) = 1
    /\ Questions[1].number = 1
    /\ Len(Questions[1].options) = 2
    /\ Questions[1].options[1].letter = "A" /\ Questions[1].options[1].text = sCat
    /\ Questions[1].options[2].letter = "B" /\ Questions[1].options[2].text = sDog

C3_EveryHighlightedIsAnswer ==
    Returned =>
        \A k \in 1..Len(Questions) :
            \A l \in HighlightedLetters(Questions[k]) :
                Questions[k].type = "multiple_choice" =>
                    /\ Questions[k].correctAnswer = Some(<<l>>)
                    /\ Questions[k].number \in DOMAIN Answers
                    /\ Answers[Questions[k].number] = <<l>>

\* C3 amended: for every multiple-choice Question with a highlighted option,
\* its correct answer is the letter of its alphabetically first highlighted
\* option, and answers[number] is the correct answer of the last such Question
\* of that number in document order.
C3_FirstHighlightedIsAnswer ==
    Returned =>
        \A k \in 1..Len(Questions) :
            Keyed(Questions[k]) =>
                /\ Questions[k].correctAnswer =
                      Some(<<LeastLetter(HighlightedLetters(Questions[k]))>>)
                /\ Questions[k].number \in DOMAIN Answers
                /\ \E j \in 1..Len(Questions) :
                      /\ Keyed(Questions[j])
                      /\ Questions[j].number = Questions[k].number
                      /\ \A i \in 1..Len(Questions) :
                            (Keyed(Questions[i]) /\ Questions[i].number = Questions[k].number)
                                => Questions[i].line <= Questions[j].line
                      /\ Answers[Questions[k].number] = Val(Questions[j].correctAnswer)

\* two multiple-choice Questions of one number, the later one with two
\* highlighted options, and different correct answers
C3_Witness ==
    /\ Returned
    /\ \E j, k \in 1..Len(Questions) :
          /\ Questions[j].line < Questions[k].line
          /\ Questions[j].number = Questions[k].number
          /\ Keyed(Questions[j]) /\ Keyed(Questions[k])
          /\ Cardinality(HighlightedLetters(Questions[k])) = 2
          /\ Questions[j].correctAnswer # Questions[k].correctAnswer

\* the first kept paragraph after paragraph i, or 0
NextKept(i) ==
    LET later == {j \in (i + 1)..Len(paragraphs) : KeptOf[paragraphs[j]]}
    IN  IF later = {} THEN 0 ELSE SetMin(later)

\* the question-start line of q is followed directly by another one
FollowedByQuestionStart(q) ==
    NextKept(q.line) # 0 /\ IsQuestionStart(paragraphs[NextKept(q.line)])

TypeResolved(q) ==
    /\ q.type \in {"multiple_choice", "writing"}
    /\ q.type = "multiple_choice" => Len(q.options) >= 2

\* C4 as stated: every Question is multiple-choice or free-response, never
\* undetermined; multiple-choice only with at least 2 options; a Question
\* whose question-start line is followed directly by another question-start
\* line has zero options and type free-response.
C4_TypesAsStated ==
    Returned =>
        \A k \in 1..Len(Questions) :
            /\ TypeResolved(Questions[k])
            /\ FollowedByQuestionStart(Questions[k]) =>
                  Len(Questions[k].options) = 0 /\ Questions[k].type = "writing"

\* C4 amended: as stated, the last part for a question-start line that itself
\* holds no option marker (A. B) ...).
C4_Types ==
    Returned =>
        \A k \in 1..Len(Questions) :
            /\ TypeResolved(Questions[k])
            /\ (/\ FollowedByQuestionStart(Questions[k])
                /\ ScanMarkers(DataOf[paragraphs[Questions[k].line]].text, 0) = <<>>) =>
                  Len(Questions[k].options) = 0 /\ Questions[k].type = "writing"

\* "Câu 5. I wish I ___ taller." directly followed by a question-start line,
\* and a multiple-choice Question in the same result
C4_Witness ==
    /\ Returned
    /\ \E k \in 1..Len(Questions) :
          /\ paragraphs[Questions[k].line] = pQ5Wish
          /\ FollowedByQuestionStart(Questions[k])
          /\ Questions[k].type = "writing"
    /\ \E k \in 1..Len(Questions) : Questions[k].type = "multiple_choice"

SortedNoDuplicates(options) ==
    \A i, j \in 1..Len(options) :
        i < j => LetterRank(options[i].letter) < LetterRank(options[j].letter)

\* C5: after every call of the Option/Answer Extractor and in every parse
\* result, each Question's options are sorted by letter ascending and no two
\* options have the same letter.
C5_OptionsSortedNoDuplicates ==
    /\ currentQuestion # Null => SortedNoDuplicates(Val(currentQuestion).options)
    /\ \A k \in 1..Len(Questions) : SortedNoDuplicates(Questions[k].options)

\* options found in the order B, A on the question line, then an option line
\* with the letter A again and one with C and D
C5_Witness ==
    /\ paragraphs = <<pQ1NoOk, pOptA, pOptsCD>>
    /\ currentQuestion # Null
    /\ Len(Val(currentQuestion).options) = 4

\* C6: the returned list is ordered by non-decreasing number, and Questions
\* of equal number are in the order of their question-start lines.
C6_SortedStable ==
    Returned =>
        \A i, j \in 1..Len(Questions) :
            i < j =>
                /\ Questions[i].number <= Questions[j].number
                /\ Questions[i].number = Questions[j].number =>
                      Questions[i].line < Questions[j].line

\* questions 5, 1, 1 in document order
C6_Witness ==
    /\ Returned
    /\ Len(Questions) = 3
    /\ Questions[1].number = Questions[2].number
    /\ Questions[3].line = 1

\* C7: the result holds exactly one Question per question-start line
\* processed, the one in progress at the end included; two question-start
\* lines of one number give two Questions.
C7_OneQuestionPerStart ==
    Returned =>
        /\ Len(Questions) = Cardinality(QuestionStarts)
        /\ \A i \in QuestionStarts :
              \E k \in 1..Len(Questions) :
                  /\ Questions[k].line = i
                  /\ Questions[k].number = Val(QMatch(LineOf[paragraphs[i]])).qNum

\* three question-start lines, two of them with the number 1
C7_Witness ==
    /\ Returned
    /\ Cardinality(QuestionStarts) = 3
    /\ \E i, j \in QuestionStarts :
          /\ i < j
          /\ Val(QMatch(LineOf[paragraphs[i]])).qNum = Val(QMatch(LineOf[paragraphs[j]])).qNum

Validated == validation # Null

\* two Questions of the validated ExamData share a number
DuplicateNumbers ==
    \E i, j \in 1..Len(Questions) : i < j /\ Questions[i].number = Questions[j].number

\* C8: for any ExamData in which two Questions share a number,
\* validateExamData returns a non-empty problem list (valid = false).
C8_DuplicatesReported ==
    (Validated /\ DuplicateNumbers) =>
        /\ ~Val(validation).valid
        /\ Len(Val(validation).errors) > 0

\* the three conditions of C9 on Question k: (a) neither text nor options,
\* (b) multiple-choice with zero options, (c) no correct answer
Shortfalls(k) ==
    LET q == Questions[k]
    IN  {c \in {"a", "b", "c"} :
            \/ c = "a" /\ q.text = <<>> /\ q.options = <<>>
            \/ c = "b" /\ q.type = "multiple_choice" /\ q.options = <<>>
            \/ c = "c" /\ q.correctAnswer \in {Null, Some(<<>>)}}

AllShortfalls == {<<k, c>> \in (1..Len(Questions)) \X {"a", "b", "c"} : c \in Shortfalls(k)}

\* C9 as stated: valid = true exactly when no Question has (a), (b) or (c);
\* each such condition contributes a problem and nothing else does.
C9_ValidIffNoShortfall ==
    Validated =>
        /\ Val(validation).valid <=> (AllShortfalls = {})
        /\ Len(Val(validation).errors) = Cardinality(AllShortfalls)

\* C9 amended: valid = true exactly when the ExamData has at least one
\* Question and no Question has (a), (b) or (c); each such condition
\* contributes a problem, an ExamData without Questions contributes one,
\* and nothing else does.
C9_ValidIffQuestionsAndNoShortfall ==
    Validated =>
        /\ Val(validation).valid <=> (Len(Questions) > 0 /\ AllShortfalls = {})
        /\ Len(Val(validation).errors) =
              Cardinality(AllShortfalls) + (IF Len(Questions) = 0 THEN 1 ELSE 0)

\* a complete Question and one with all three shortfalls
C9_Witness ==
    /\ Validated
    /\ Len(Questions) = 2
    /\ Shortfalls(1) = {}
    /\ Shortfalls(2) = {"a", "b", "c"}
    /\ ~Val(validation).valid

\* C10: when word/document.xml is not well-formed XML, parseWordToExam fails
\* and returns no ExamData.
C10_MalformedRejected ==
    (file.zip /\ file.entry = "present" /\ ~file.wellFormed) =>
        /\ pc # "returned"
        /\ pc \notin {"loadAsync", "readEntry", "parseFromString"} => pc = "rejected"

----------------------------------------------------------------------------
\* C11: when the bytes are no zip archive, or the archive has no
\* word/document.xml entry, parseWordToExam is rejected before any paragraph
\* is classified and no ExamData is returned: the call never gets past
\* reading the entry, no w:p element is processed, nothing is collected, and
\* where it stops it stops rejected with an error
C11_BadArchiveRejected ==
    (~file.zip \/ file.entry = "absent") =>
        /\ pc \in {"loadAsync", "readEntry", "rejected"}
        /\ (pc = "readEntry" => file.zip)
        /\ (pc = "rejected" <=> thrown # Null)
        /\ paragraphs = <<>>
        /\ context = <<Null, Null, Null, <<>>, FALSE>>
        /\ examData = NewExamData

\* a zip archive without the entry has been rejected
C11_Witness == file.zip /\ file.entry = "absent" /\ pc = "rejected" /\ thrown # Null

----------------------------------------------------------------------------
\* the step processes the w:p element p, and its line takes one of roles
Processes(p, roles) ==
    /\ pc = "paragraphs"
    /\ paragraphs' = Append(paragraphs, p)
    /\ KeptOf[p]
    /\ RoleOf[p][inReading][currentQuestion # Null] \in roles

\* the step calls extractOptionsWithUnderline on p
Extracts(p) == Processes(p, {"question", "option"})

Letters(options) == {options[k].letter : k \in 1..Len(options)}

\* C12: a second run of the extractor on a paragraph, for the Question the
\* first run has just left, returns the options list of the first run, in
\* which no letter occurs twice.
C12_SecondRunAddsNothing ==
    [][\A p \in Paragraphs :
          Extracts(p) =>
              LET first == Val(currentQuestion')
                  second == extractOptionsWithUnderline(DataOf[p], first)
              IN  /\ second.options = first.options
                  /\ Cardinality(Letters(second.options)) = Len(second.options)]_vars

\* the extractor has just added the options C and D of an option line, which
\* a second run finds again
C12_Witness ==
    /\ paragraphs = <<pQ5Wish, pOptsCD>>
    /\ currentQuestion # Null
    /\ Letters(Val(currentQuestion).options) = {"C", "D"}

----------------------------------------------------------------------------
tags == {tagSpanOpen, tagSpanClose, tagStrongOpen, tagStrongClose}

UnescapeChar(c) ==
    CASE c = "&amp;" -> "&"
      [] c = "&lt;"  -> "<"
      [] c = "&gt;"  -> ">"
      [] OTHER       -> c

\* formatted text without its wrapper markup and with its escaping undone
Stripped(html) ==
    LET kept == SelectSeq(html, LAMBDA c : c \notin tags)
    IN  [k \in 1..Len(kept) |-> UnescapeChar(kept[k])]

RECURSIVE RangeText(_, _, _)
\* the concatenation of the texts of the runs restricted to [startPos, endPos)
RangeText(runs, startPos, endPos) ==
    IF runs = <<>> THEN <<>>
    ELSE LET run == Head(runs)
             inRange == {k \in 1..Len(run.text) :
                            startPos <= run.start + k - 1 /\ run.start + k - 1 < endPos}
         IN  [j \in 1..Cardinality(inRange) |-> run.text[SetMin(inRange) + j - 1]]
                \o RangeText(Tail(runs), startPos, endPos)

\* every run of white space as one space, none at either end
Normalized(text) == Trim(CollapseWS(text))

\* C13 as stated: stripped of its markup and unescaped, the formatted text
\* equals the text of the range character for character.
C13_StrippedIsRangeText ==
    formatted # Null =>
        LET call == Val(formatCall)
        IN  Stripped(Val(formatted)) = RangeText(call.runs, call.startPos, call.endPos)

\* C13: stripped of its markup and unescaped, the formatted text equals the
\* text of the range up to white space: the two are equal once every run of
\* white space is one space and none is left at either end.
C13_StrippedIsRangeTextUpToSpace ==
    formatted # Null =>
        LET call == Val(formatCall)
        IN  Normalized(Stripped(Val(formatted)))
                = Normalized(RangeText(call.runs, call.startPos, call.endPos))

\* a range over an underlined run, a bold run with an ampersand and a tab
\* followed by a space, and a part of a plain run
C13_Witness ==
    /\ formatCall = Some([runs |-> ParagraphDataOf(pOptsCD).runs, startPos |-> 1, endPos |-> 12])
    /\ formatted # Null
    /\ \E k \in 1..Len(Val(formatted)) : Val(formatted)[k] = "&amp;"
    /\ \E k \in 1..Len(Val(formatted)) : Val(formatted)[k] = tagStrongOpen
    /\ Stripped(Val(formatted)) # RangeText(ParagraphDataOf(pOptsCD).runs, 1, 12)

----------------------------------------------------------------------------
(* The branch each processed w:p element took, from the document alone *)

RECURSIVE ReadingAfter(_)
\* inReading after the first n elements of the document
ReadingAfter(n) ==
    IF n = 0 THEN FALSE
    ELSE LET p == paragraphs[n]
             before == ReadingAfter(n - 1)
         IN  IF ~KeptOf[p] THEN before
             ELSE IF RoleOf[p][before][FALSE] = "passageStart" THEN TRUE
             ELSE IF RoleOf[p][before][FALSE] \in {"section", "part", "passage"} THEN before
             ELSE IF CauMatch(LineOf[p]) THEN FALSE
             ELSE before

\* the branch the i-th element took ("blank" when it is not kept)
RoleAt(i) ==
    LET p == paragraphs[i]
    IN  IF ~KeptOf[p] THEN "blank"
        ELSE RoleOf[p][ReadingAfter(i - 1)][\E j \in QuestionStarts : j < i]

\* the answer lines processed while q is the question in progress
AnswerLinesOf(q) ==
    {i \in (q.line + 1)..Len(paragraphs) :
        /\ RoleAt(i) = "answer"
        /\ ~\E j \in QuestionStarts : q.line < j /\ j < i}

\* the value of an answer line: what follows "Đáp án:", trimmed
AnswerValue(p) == Val(AnsMatch(LineOf[p]))

\* C14: a Question for which an answer line was processed is free-response
\* in the parse result, whatever options it has, and its correct answer is
\* the value of the last such line.
C14_AnswerLineForcesWriting ==
    Returned =>
        \A k \in 1..Len(Questions) :
            LET q == Questions[k]
                answers == AnswerLinesOf(q)
            IN  answers # {} =>
                    /\ q.type = "writing"
                    /\ q.correctAnswer = Some(AnswerValue(paragraphs[SetMax(answers)]))

\* a question with two options, one highlighted, and two answer lines
C14_Witness ==
    /\ Returned
    /\ paragraphs = <<pQ1CatDog, pAnswer, pAnswerWere>>
    /\ AnswerLinesOf(Questions[1]) = {2, 3}
    /\ HighlightedLetters(Questions[1]) # {}
    /\ Questions[1].correctAnswer = Some(<<"w","e","r","e">>)

----------------------------------------------------------------------------
\* the questions started so far: the finished ones and the one in progress
Started(questions, current) ==
    {questions[k] : k \in 1..Len(questions)}
        \cup (IF current = Null THEN {} ELSE {Val(current)})

SameContext(q, r) ==
    q.section = r.section /\ q.part = r.part /\ q.passage = r.passage

\* C15: the section, part and passage of a Question are currentSection,
\* currentPart and readingPassage as they are when its question-start line
\* is processed, and no later step changes them.
C15_ContextSnapshot ==
    [][/\ \A p \in Paragraphs :
             Processes(p, {"question"}) =>
                 LET q == Val(currentQuestion')
                 IN  /\ q.line = Len(paragraphs')
                     /\ q.section = currentSection
                     /\ q.part = currentPart
                     /\ q.passage = readingPassage
       /\ \A q \in Started(Questions, currentQuestion) :
             /\ \E r \in Started(Questions', currentQuestion') : r.line = q.line
             /\ \A r \in Started(Questions', currentQuestion') :
                   r.line = q.line => SameContext(q, r)]_vars

\* a question started after a passage title and before any section header,
\* and a section header after it
C15_Witness ==
    /\ Returned
    /\ paragraphs = <<pDragon, pQ5Wish, pSection>>
    /\ Questions[1].passage = Append(tDragon, "\n")
    /\ Questions[1].section = Null
    /\ currentSection # Null

----------------------------------------------------------------------------
\* C16: a section-header line changes only currentSection and a part-header
\* line only currentPart: the Question in progress, which stays in progress,
\* readingPassage, inReading and the finished Questions are as before.
C16_HeadersChangeOnlyTheirVariable ==
    [][\A p \in Paragraphs :
          /\ Processes(p, {"section"}) =>
                /\ currentSection' # Null
                /\ UNCHANGED <<currentPart, currentQuestion, readingPassage, inReading,
                               examData>>
          /\ Processes(p, {"part"}) =>
                /\ currentPart' = Some(LineOf[p])
                /\ UNCHANGED <<currentSection, currentQuestion, readingPassage, inReading,
                               examData>>]_vars

\* a part header processed while a question is in progress and a passage is
\* being read
C16_Witness ==
    /\ pc = "paragraphs"
    /\ paragraphs = <<pQ5Wish, pDragon, pPart>>
    /\ currentPart = Some(tPart)
    /\ currentQuestion # Null
    /\ inReading
    /\ Questions = <<>>

----------------------------------------------------------------------------
\* readingPassage with line appended
WithLine(passage, line) == passage \o Append(line, "\n")

\* the step processes p while a passage is being read, and the line of p is
\* none of excluded
InPassage(p, excluded) ==
    /\ inReading
    /\ Processes(p, {"section", "part", "passageStart", "passage", "question", "option",
                     "answer", "continuation", "discarded"} \ excluded)

\* C17 as stated: while a passage is being read, every line that is not a
\* section or part header and does not begin a question is appended to
\* readingPassage and changes neither the Question in progress nor the
\* finished ones; a line that begins a question is not appended and clears
\* inReading.
C17_EveryLineAppended ==
    [][\A p \in Paragraphs :
          InPassage(p, {"section", "part"}) =>
              IF CauMatch(LineOf[p])
              THEN readingPassage' = readingPassage /\ ~inReading'
              ELSE /\ readingPassage' = WithLine(readingPassage, LineOf[p])
                   /\ UNCHANGED <<currentQuestion, examData, inReading>>]_vars

\* C17: while a passage is being read, every line that is not a section or
\* part header, is not a passage-start line and does not begin a question is
\* appended to readingPassage and changes neither the Question in progress
\* nor the finished ones; a passage-start line starts readingPassage again
\* with that line alone; a line that begins a question is not appended and
\* clears inReading.
C17_EveryOtherLineAppended ==
    [][\A p \in Paragraphs :
          /\ InPassage(p, {"section", "part", "passageStart"}) =>
                IF CauMatch(LineOf[p])
                THEN readingPassage' = readingPassage /\ ~inReading'
                ELSE /\ readingPassage' = WithLine(readingPassage, LineOf[p])
                     /\ UNCHANGED <<currentQuestion, examData, inReading>>
          /\ (inReading /\ Processes(p, {"passageStart"})) =>
                /\ readingPassage' = WithLine(<<>>, LineOf[p])
                /\ UNCHANGED <<currentQuestion, examData, inReading>>]_vars

\* a question with two options is in progress, a passage has started, and a
\* line that looks like an option line has become a line of the passage
C17_Witness ==
    /\ pc = "paragraphs"
    /\ paragraphs = <<pQ1CatDog, pDragon, pOptA>>
    /\ inReading
    /\ readingPassage = WithLine(WithLine(<<>>, tDragon), tOptA)
    /\ currentQuestion # Null
    /\ Len(Val(currentQuestion).options) = 2

----------------------------------------------------------------------------
Sections == examData.sections

\* the index in the sorted list of its first Question with the key
FirstSeen(key) == SetMin({k \in 1..Len(Questions) : SectionKey(Questions[k]) = key})

\* the Questions of a Section have one key
OneKey(s) ==
    /\ Len(s.questions) >= 1
    /\ \A k \in 1..Len(s.questions) : SectionKey(s.questions[k]) = SectionKey(s.questions[1])

\* Section records are in the order in which their keys are first seen,
\* every Question is in one of them
FirstSeenOrder ==
    /\ \A a \in 1..Len(Sections) : OneKey(Sections[a])
    /\ \A a, b \in 1..Len(Sections) :
          a < b => FirstSeen(SectionKey(Sections[a].questions[1]))
                       < FirstSeen(SectionKey(Sections[b].questions[1]))
    /\ \A k \in 1..Len(Questions) :
          \E a \in 1..Len(Sections) :
              SectionKey(Sections[a].questions[1]) = SectionKey(Questions[k])

\* the Questions of s are consecutive in the sorted list
Consecutive(s) ==
    \E i \in 1..Len(Questions) :
        /\ i + Len(s.questions) - 1 <= Len(Questions)
        /\ s.questions = SubSeq(Questions, i, i + Len(s.questions) - 1)

\* C18 as stated: every Section holds Questions that are consecutive in the
\* sorted list and have one key, and the Sections are in first-seen order of
\* keys.
C18_SectionsAreRuns ==
    Returned => FirstSeenOrder /\ \A a \in 1..Len(Sections) : Consecutive(Sections[a])

\* C18: every Section holds all the Questions of the sorted list that have
\* its key, in the order of the list, whether they are consecutive there or
\* not, and the Sections are in first-seen order of keys.
C18_SectionsAreKeyClasses ==
    Returned =>
        /\ FirstSeenOrder
        /\ \A a \in 1..Len(Sections) :
              Sections[a].questions =
                  SelectSeq(Questions,
                            LAMBDA q : SectionKey(q) = SectionKey(Sections[a].questions[1]))

\* three Questions, the second of another section than the first and third,
\* in two Sections
C18_Witness ==
    /\ Returned
    /\ Len(Questions) = 3
    /\ SectionKey(Questions[1]) = SectionKey(Questions[3])
    /\ SectionKey(Questions[1]) # SectionKey(Questions[2])
    /\ Len(Sections) = 2
    /\ Len(Sections[1].questions) = 2

----------------------------------------------------------------------------
\* the Question whose question-start line is the i-th element
QuestionOfLine(i) == CHOOSE q \in Started(Questions, currentQuestion) : q.line = i

\* no line of a passage is processed between the i-th and the j-th element
NoPassageBetween(i, j) ==
    \A l \in (i + 1)..(j - 1) : RoleAt(l) \notin {"passageStart", "passage"}

\* C19: the description, points and passage of a Section are the part, the
\* points and the passage of the first Question of the sorted list that has
\* its key; two Questions started with no line of a passage between them
\* carry the same passage text.
C19_SectionFieldsFromFirstQuestion ==
    Returned =>
        /\ \A a \in 1..Len(Sections) :
              LET s == Sections[a]
                  firstQ == Questions[FirstSeen(SectionKey(s.questions[1]))]
              IN  /\ s.description = (IF firstQ.part # Null THEN Val(firstQ.part) ELSE <<>>)
                  /\ s.points = (IF firstQ.section # Null THEN Val(firstQ.section).points
                                 ELSE <<>>)
                  /\ s.readingPassage = firstQ.passage
        /\ \A i, j \in QuestionStarts :
              (i < j /\ NoPassageBetween(i, j)) =>
                  QuestionOfLine(i).passage = QuestionOfLine(j).passage

\* a passage title followed by two Questions, number 5 before number 1: both
\* carry the title as passage, and so does their Section
C19_Witness ==
    /\ Returned
    /\ paragraphs = <<pDragon, pQ5Wish, pQ1CatDog>>
    /\ Len(Questions) = 2
    /\ Questions[1].passage = WithLine(<<>>, tDragon)
    /\ Questions[2].passage = WithLine(<<>>, tDragon)
    /\ Len(Sections) = 1
    /\ Sections[1].readingPassage = WithLine(<<>>, tDragon)

----------------------------------------------------------------------------
\* the offset at which the span of the i-th marker ends
NextStart(pData, matches, i) ==
    IF i < Len(matches) THEN matches[i + 1].matchStart ELSE Len(pData.text)

\* the i-th marker has content
HasContent(pData, matches, i) ==
    Trim(Slice(pData.text, matches[i].contentStart, NextStart(pData, matches, i))) # <<>>

\* the i-th marker adds an option to a list that holds the letters before:
\* it has content, and its letter is new to the list and to the markers with
\* content before it
AddsOption(pData, matches, i, before) ==
    /\ HasContent(pData, matches, i)
    /\ matches[i].letter \notin before
    /\ \A j \in 1..(i - 1) :
          matches[j].letter = matches[i].letter => ~HasContent(pData, matches, j)

\* some highlighted run overlaps [matchStart, nextStart)
StrictOverlap(runs, matchStart, nextStart) ==
    \E k \in 1..Len(runs) :
        /\ runs[k].hasHighlight
        /\ SetMax({runs[k].start, matchStart}) < SetMin({runs[k].end, nextStart})

----------------------------------------------------------------------------
\* the runs cover [0, Len(text)) one after the other, none is empty, and
\* text is their texts joined
WellFormedRuns(pData) ==
    LET runs == pData.runs
    IN  /\ \A k \in 1..Len(runs) :
              /\ runs[k].text # <<>>
              /\ runs[k].end = runs[k].start + Len(runs[k].text)
              /\ runs[k].start = (IF k = 1 THEN 0 ELSE runs[k - 1].end)
              /\ \A j \in 1..Len(runs[k].text) :
                    pData.text[runs[k].start + j] = runs[k].text[j]
        /\ Len(pData.text) = (IF runs = <<>> THEN 0 ELSE runs[Len(runs)].end)

\* C21: in every paragraph the run extractor produces, no run has empty
\* text, the first run starts at 0, each run ends at its start plus the
\* length of its text, each next run starts where the previous one ends, and
\* the paragraph text is the run texts joined, as long as the last run's end.
C21_RunsContiguous ==
    \A i \in 1..Len(paragraphs) :
        KeptOf[paragraphs[i]] => WellFormedRuns(DataOf[paragraphs[i]])

\* a paragraph of three w:r elements, the second without text, has been
\* processed: it has two runs
C21_Witness ==
    /\ pc = "paragraphs"
    /\ paragraphs = <<pQ1NoOk>>
    /\ Len(pQ1NoOk) = 3
    /\ pQ1NoOk[2].text = <<>>
    /\ Len(DataOf[pQ1NoOk].runs) = 2
    /\ currentQuestion # Null

----------------------------------------------------------------------------
\* C22: the correct answer of a multiple-choice Question with highlighted
\* options is one letter, the letter of a highlighted option, and no
\* highlighted option has a letter before it in the alphabet.
C22_AnswerIsLeastHighlightedLetter ==
    Returned =>
        \A k \in 1..Len(Questions) :
            LET q == Questions[k]
            IN  (q.type = "multiple_choice" /\ HighlightedLetters(q) # {}) =>
                    /\ q.correctAnswer # Null
                    /\ Len(Val(q.correctAnswer)) = 1
                    /\ Val(q.correctAnswer)[1] \in HighlightedLetters(q)
                    /\ \A l \in HighlightedLetters(q) :
                          LetterRank(Val(q.correctAnswer)[1]) <= LetterRank(l)

\* the question line holds the highlighted options B and A in that order:
\* the answer is A
C22_Witness ==
    /\ Returned
    /\ paragraphs = <<pQ1NoOk>>
    /\ Questions[1].type = "multiple_choice"
    /\ HighlightedLetters(Questions[1]) = {"A", "B"}
    /\ Questions[1].correctAnswer = Some(<<"A">>)

----------------------------------------------------------------------------
Groups == Val(groupedQuestions)
Shown == Val(exam).questions

\* the index of the group that holds the i-th question of exam.questions:
\* the groups hold the questions in order
GroupOf(i) ==
    SetMin({g \in 1..Len(Groups) :
               i <= Len(Concat([h \in 1..g |-> Groups[h].questions]))})

\* a section or part that is absent, as undefined or as null
Absent(v) == v = Undefined \/ v = Null

SameOrBothAbsent(a, b) == a = b \/ (Absent(a) /\ Absent(b))



\* C26: two consecutive questions of exam.questions with equal section and
\* equal part, both without one included, are in the same group.
C26_EqualNeighboursShareGroup ==
    groupedQuestions # Null =>
        /\ Concat([g \in 1..Len(Groups) |-> Groups[g].questions]) = Shown
        /\ \A i \in 1..(Len(Shown) - 1) :
              (/\ SameOrBothAbsent(Shown[i].section, Shown[i + 1].section)
               /\ SameOrBothAbsent(Shown[i].part, Shown[i + 1].part))
                  => GroupOf(i) = GroupOf(i + 1)

\* the groups whose displayed passage is the text
ShownIn(text) == {g \in 1..Len(Groups) : Groups[g].passage = Some(text)}

\* C27: each non-empty passage text is the displayed passage of at most one
\* group, however many questions and groups carry it.
C27_PassageShownOnce ==
    groupedQuestions # Null =>
        \A i \in 1..Len(Shown) :
            TruthyValue(Shown[i].passage) =>
                Cardinality(ShownIn(Val(Shown[i].passage))) <= 1

\* three questions of one passage in three groups: the first group shows it
C27_Witness ==
    /\ groupedQuestions # Null
    /\ Len(Shown) = 3
    /\ \A i \in 1..3 : Shown[i].passage = Some(tDragon)
    /\ Len(Groups) = 3
    /\ ShownIn(tDragon) = {1}

----------------------------------------------------------------------------
\* C23: once the exam and a submission id are loaded, a report of the room
\* as closed leads to a call of submitExam that had not failed before the
\* report: one made after it, or one still awaited when it came.
C23_ClosedLeadsToSubmit ==
    (closeReport # Null) ~>
        (closeReport # Null /\ Len(submitCalls) > Val(closeReport))

----------------------------------------------------------------------------
\* C24: in one mounted session submitExam is called at most once, not
\* counting the calls that ended with an error.
C24_SubmittedOnce == Len(submitCalls) <= 1 + Cardinality(rejected)

----------------------------------------------------------------------------
\* C25: every call of submitExam made on countdown expiry, by the interval
\* tick or by the timer effect, passes the answers that are the userAnswers
\* state at the time of the call.
C25_ExpiryPassesCurrentAnswers ==
    \A i \in 1..Len(submitCalls) :
        submitCalls[i].by \in {"tick", "effect"} =>
            submitCalls[i].answers = submitCalls[i].current

====
